---- MODULE Spec2Model ----
(***************************************************************************)
(* Daily quality report generator: image resolution (main.py),             *)
(* submission grouping and run control (main.py), the image pass over one  *)
(* store (main.py), overlay naming and document layout (pdf_generator.py). *)
(*                                                                         *)
(* Text is modelled as a sequence of one-character strings, so that        *)
(* trimming, pattern search and path manipulation are computed the way the *)
(* program computes them.                                                  *)
(***************************************************************************)
EXTENDS Integers, Sequences, FiniteSets, TLC

VARIABLES
    \* ---- process_image_column / download_and_validate_image ----
    cell,        \* raw cell value first_row[col]
    save_ext,    \* extension of save_path
    dest,        \* what the file system holds at save_path
    link,        \* str(cell).strip()
    file_id,     \* extract_file_id(link)
    exc,         \* the exception raised inside the try of download_and_validate_image
    attempts,    \* number of calls of download_drive_file
    img_path,    \* value returned by process_image_column
    rpc,         \* position inside process_image_column
    \* ---- generate_daily_report_pdf ----
    all_stores_data,     \* the argument: one record per store
    placeholder_exists,  \* the placeholder asset is present on disk
    unreadable,          \* image files cv2.imread cannot decode
    elements,            \* the flowables handed to doc.build
    store_idx,           \* number of stores the loop of line 197 has laid out
    temp_dir,            \* the overlay working directory: "none", "present", "removed"
    overlays,            \* names of the overlay files written into temp_dir
    cleanup,             \* the rmtree of line 305: "pending", "done", "failed"
    ppc,                 \* position inside generate_daily_report_pdf
    \* ---- main ----
    df,                  \* the rows of the sheet, in table order
    columns,             \* the header row of the sheet
    continue_on_error,   \* config.CONTINUE_ON_ERROR
    df_today,            \* indexes of the rows kept by the date filter
    stores,              \* df_today[store_col].unique()
    loop_idx,            \* number of stores the loop of line 230 has handled
    report_stores,       \* main's all_stores_data
    failed_stores,       \* positions in stores whose process_store_images raised (line 267)
    result,              \* what main returned: "None", "pdf_path" or "raised"
    exit_code,           \* the process exit code, -1 while running
    outcome,             \* the branch main ended in, as its log tells it
    last_signal,         \* outcome, result and exit code of the previous run
    mpc,                 \* position inside main
    \* ---- create_image_with_overlay over one run ----
    sources,             \* the product images of the run, in layout order
    outputs,             \* the paths create_image_with_overlay returned for them
    temp_content,        \* the working directory: overlay path -> image it shows
    \* ---- process_store_images for one store ----
    product_columns,     \* headers of the product columns, in table order
    n_overall_columns,   \* number of overall photo columns
    upload,              \* which cells of first_row resolve to a downloaded image
    ret_overall_images,      \* first value returned by process_store_images
    ret_product_images,      \* second value returned by process_store_images
    spc                  \* position inside the store's pass of main's loop

resolverVars == <<cell, save_ext, dest, link, file_id, exc, attempts, img_path, rpc>>

pdfVars == <<all_stores_data, placeholder_exists, unreadable, elements, store_idx,
             temp_dir, overlays, cleanup, ppc>>

mainVars == <<df, columns, continue_on_error, df_today, stores, loop_idx, report_stores,
              failed_stores, result, exit_code, outcome, last_signal, mpc>>

overlayVars == <<sources, outputs, temp_content>>

storeVars == <<product_columns, n_overall_columns, upload, ret_overall_images, ret_product_images,
               spc>>

vars == <<resolverVars, pdfVars, mainVars, overlayVars, storeVars>>

nonResolverVars == <<pdfVars, mainVars, overlayVars, storeVars>>
nonPdfVars == <<resolverVars, mainVars, overlayVars, storeVars>>
nonMainVars == <<resolverVars, pdfVars, overlayVars, storeVars>>
nonOverlayVars == <<resolverVars, pdfVars, mainVars, storeVars>>
nonStoreVars == <<resolverVars, mainVars, overlayVars>>

(***************************************************************************)
(* Bounds.                                                                 *)
(***************************************************************************)
MaxLinkLen == 5
MaxItemLen == 1
MaxItems == 2
MaxStores == 3
MaxOverall == 3
MaxProducts == 4
MaxRows == 3
MaxNameLen == 3

(***************************************************************************)
(* Text helpers.                                                           *)
(***************************************************************************)
\* All sequences over S of length at most n.
SeqsUpTo(S, n) == UNION {[1..k -> S] : k \in 0..n}

None == <<"N", "o", "n", "e">>

Whitespace == {" "}

RECURSIVE lstrip(_)
lstrip(s) ==
    IF s = <<>> THEN <<>>
    ELSE IF Head(s) \in Whitespace THEN lstrip(Tail(s)) ELSE s

RECURSIVE rstrip(_)
rstrip(s) ==
    IF s = <<>> THEN <<>>
    ELSE IF s[Len(s)] \in Whitespace THEN rstrip(SubSeq(s, 1, Len(s) - 1)) ELSE s

strip(s) == rstrip(lstrip(s))

(***************************************************************************)
(* extract_file_id: four patterns, each a literal followed by one or more  *)
(* characters of [a-zA-Z0-9_-]; the first pattern that matches anywhere    *)
(* wins and the leftmost match of that pattern supplies the group.         *)
(***************************************************************************)
LinkChars == {"/", "d", "=", "i", " "}

\* the characters of [a-zA-Z0-9_-] that occur in the modelled texts
IdChars == {"d", "i", "u", "c", "o", "p", "e", "n", "N", "A", "B", "_", "-"}

patterns == <<
    <<"/", "d", "/">>,
    <<"i", "d", "=">>,
    <<"/", "u", "c", "?", "i", "d", "=">>,
    <<"o", "p", "e", "n", "?", "i", "d", "=">> >>

\* the literal lit occurs at position i of s and an identifier character follows
MatchAt(lit, s, i) ==
    /\ i + Len(lit) <= Len(s)
    /\ SubSeq(s, i, i + Len(lit) - 1) = lit
    /\ s[i + Len(lit)] \in IdChars

\* re.search: position of the leftmost match, 0 when there is none
Search(lit, s) ==
    LET hits == {i \in 1..Len(s) : MatchAt(lit, s, i)}
    IN IF hits = {} THEN 0 ELSE CHOOSE i \in hits : \A j \in hits : i <= j

\* m.group(1): the longest run of identifier characters after the literal
Group(lit, s, i) ==
    LET from == i + Len(lit)
        ends == {e \in from..Len(s) :
                    /\ \A k \in from..e : s[k] \in IdChars
                    /\ (e = Len(s) \/ s[e + 1] \notin IdChars)}
    IN SubSeq(s, from, CHOOSE e \in ends : TRUE)

NoFileId == <<>>

extract_file_id(url) ==
    IF url = <<>> THEN NoFileId
    ELSE LET matching == {p \in 1..Len(patterns) : Search(patterns[p], url) # 0}
         IN IF matching = {} THEN NoFileId
            ELSE LET p == CHOOSE q \in matching : \A r \in matching : q <= r
                 IN Group(patterns[p], url, Search(patterns[p], url))

(***************************************************************************)
(* Raw cells.  A cell is a string, a multi-value cell (a list of strings)  *)
(* or absent.  val always holds a list of strings; a string cell holds     *)
(* exactly one.                                                            *)
(***************************************************************************)
LinkStrings == SeqsUpTo(LinkChars, MaxLinkLen)

ValidLink == <<"/", "d", "/", "i", "d">>

ListItems == SeqsUpTo(LinkChars, MaxItemLen) \cup {ValidLink}

RawCells ==
    {[kind |-> "str", val |-> <<s>>] : s \in LinkStrings}
    \cup {[kind |-> "list", val |-> l] : l \in SeqsUpTo(ListItems, MaxItems)}
    \cup {[kind |-> "absent", val |-> <<>>]}

\* next((x for x in cell if x), "")
RECURSIVE first_non_empty(_)
first_non_empty(l) ==
    IF l = <<>> THEN <<>>
    ELSE IF Head(l) # <<>> THEN Head(l) ELSE first_non_empty(Tail(l))

\* lines 122-126: the cell reduced to one trimmed string
cell_link(c) ==
    LET picked == CASE c.kind = "list" -> first_non_empty(c.val)
                    [] c.kind = "str" -> c.val[1]
                    [] OTHER -> None
    IN strip(picked)

(***************************************************************************)
(* Paths are texts too; fixed parts ("data", "jpg") are single tokens.     *)
(***************************************************************************)
RECURSIVE last_index(_, _)
\* position of the last occurrence of token c in p, 0 when there is none
last_index(p, c) ==
    IF p = <<>> THEN 0
    ELSE IF p[Len(p)] = c THEN Len(p) ELSE last_index(SubSeq(p, 1, Len(p) - 1), c)

\* os.path.dirname / os.path.basename
dirname(p) == SubSeq(p, 1, last_index(p, "/") - 1)
basename(p) == SubSeq(p, last_index(p, "/") + 1, Len(p))

\* os.path.splitext on a file name: the extension starts at the last dot, a
\* leading dot does not count
splitext(f) ==
    LET d == last_index(f, ".")
    IN IF d <= 1 THEN <<f, <<>> >>
       ELSE <<SubSeq(f, 1, d - 1), SubSeq(f, d, Len(f))>>

\* os.path.join(a, b) for a relative b
join(a, b) == a \o <<"/">> \o b

ASSETS_DIR == <<"assets">>
IMAGE_DIR == <<"data", "/", "images">>
OUTPUT_DIR == <<"output">>

PLACEHOLDER_IMAGE == join(ASSETS_DIR, <<"not_uploaded", ".", "png">>)

NoPath == <<>>

VALID_IMAGE_EXTENSIONS ==
    {<<".", e>> : e \in {"jpg", "jpeg", "png", "gif", "bmp", "tiff", "webp"}}

DestExts == {"jpg", "PNG", "pdf"}

\* str.lower on the tokens that occur in paths
lower_token(t) ==
    IF t = "PNG" THEN "png" ELSE IF t = "A" THEN "a" ELSE IF t = "B" THEN "b" ELSE t
lower(p) == [i \in 1..Len(p) |-> lower_token(p[i])]

\* the destination process_store_images hands over (line 149)
save_path(ext) == join(join(IMAGE_DIR, <<"S">>), <<"Overall_1", ".", ext>>)

\* what can lie at save_path; "stale" is a file left there by an earlier run
FileStates == {"absent", "stale", "partial", "image", "garbage"}

\* validate_image_file: the file exists, its extension is allowed and PIL verifies it
validate_image_file(file_path, f) ==
    /\ f # "absent"
    /\ splitext(lower(file_path))[2] \in VALID_IMAGE_EXTENSIONS
    /\ f \in {"image", "stale"}

(***************************************************************************)
(* process_image_column                                                    *)
(***************************************************************************)
ResolverStart ==
    /\ cell \in RawCells
    /\ save_ext \in DestExts
    /\ dest \in {"absent", "stale"}
    /\ link = <<>>
    /\ file_id = NoFileId
    /\ exc = "none"
    /\ attempts = 0
    /\ img_path = NoPath
    /\ rpc = "cell"

ResolverIdle ==
    /\ cell = [kind |-> "absent", val |-> <<>>]
    /\ save_ext = "jpg"
    /\ dest = "absent"
    /\ link = <<>>
    /\ file_id = NoFileId
    /\ exc = "none"
    /\ attempts = 0
    /\ img_path = NoPath
    /\ rpc = "idle"

\* lines 122-129
process_image_column_link ==
    /\ rpc = "cell"
    /\ link' = cell_link(cell)
    /\ IF cell_link(cell) = <<>>
       THEN /\ img_path' = PLACEHOLDER_IMAGE
            /\ rpc' = "returned"
       ELSE /\ rpc' = "file_id"
            /\ UNCHANGED img_path
    /\ UNCHANGED <<cell, save_ext, dest, file_id, exc, attempts>>
    /\ UNCHANGED nonResolverVars

\* the same step without the early return of lines 132-134
process_image_column_file_id_unchecked ==
    /\ rpc = "file_id"
    /\ file_id' = extract_file_id(link)
    /\ rpc' = "download"
    /\ UNCHANGED <<cell, save_ext, dest, link, exc, attempts, img_path>>
    /\ UNCHANGED nonResolverVars

\* lines 131-134
process_image_column_file_id ==
    /\ rpc = "file_id"
    /\ file_id' = extract_file_id(link)
    /\ IF extract_file_id(link) = NoFileId
       THEN /\ img_path' = PLACEHOLDER_IMAGE
            /\ rpc' = "returned"
       ELSE /\ rpc' = "download"
            /\ UNCHANGED img_path
    /\ UNCHANGED <<cell, save_ext, dest, link, exc, attempts>>
    /\ UNCHANGED nonResolverVars

\* config.py line 56; no line of main.py or drive_client.py reads it
MAX_DOWNLOAD_RETRIES == 3

\* outcomes of download_drive_file: the request or the open fails before the file
\* is touched, a chunk fails after the file was created, or every chunk arrives
DownloadOutcomes == {"request_error", "chunk_error", "image", "garbage"}

\* drive_client.download_drive_file
download_drive_file ==
    /\ rpc = "download"
    /\ attempts' = attempts + 1
    /\ \E got \in DownloadOutcomes :
        CASE got = "request_error" ->
                /\ exc' = "download"
                /\ UNCHANGED dest
          [] got = "chunk_error" ->
                /\ exc' = "download"
                /\ dest' = "partial"
          [] OTHER ->
                /\ exc' = "none"
                /\ dest' = got
    /\ rpc' = "downloaded"
    /\ UNCHANGED <<cell, save_ext, link, file_id, img_path>>
    /\ UNCHANGED nonResolverVars

\* download_and_validate_image, lines 104-111, then line 137; when os.remove itself
\* fails the except clause of line 112 takes over
download_and_validate_image ==
    /\ rpc = "downloaded"
    /\ exc = "none"
    /\ IF validate_image_file(save_path(save_ext), dest)
       THEN /\ img_path' = save_path(save_ext)
            /\ UNCHANGED <<dest, exc>>
       ELSE /\ img_path' = PLACEHOLDER_IMAGE
            /\ \E removed \in BOOLEAN :
                 /\ dest' = IF removed THEN "absent" ELSE dest
                 /\ exc' = IF removed THEN "none" ELSE "remove"
    /\ rpc' = "returned"
    /\ UNCHANGED <<cell, save_ext, link, file_id, attempts>>
    /\ UNCHANGED nonResolverVars

\* a handler that lets the exception of the download escape
download_error_propagates ==
    /\ rpc = "downloaded"
    /\ exc = "download"
    /\ rpc' = "raised"
    /\ UNCHANGED <<cell, save_ext, dest, link, file_id, exc, attempts, img_path>>
    /\ UNCHANGED nonResolverVars

\* download_and_validate_image, lines 112-114, then line 137
download_and_validate_image_except ==
    /\ rpc = "downloaded"
    /\ exc = "download"
    /\ img_path' = PLACEHOLDER_IMAGE
    /\ rpc' = "returned"
    /\ UNCHANGED <<cell, save_ext, dest, link, file_id, exc, attempts>>
    /\ UNCHANGED nonResolverVars

(***************************************************************************)
(* pdf_generator.py                                                        *)
(***************************************************************************)
Digits == <<"1", "2", "3", "4", "5", "6", "7", "8", "9">>

store_name(s) == <<"S", Digits[s]>>
product_label(j) == <<"P", Digits[j]>>

\* main.py line 236, line 149 and line 157
store_dir(store) == join(IMAGE_DIR, store)
overall_save_path(store, idx) == join(store_dir(store), <<"Overall_", Digits[idx], ".", "jpg">>)
product_save_path(store, product) == join(store_dir(store), product \o <<".", "jpg">>)

\* which cells of a store carried an upload that was downloaded and validated
UploadPatterns == {"all", "none", "odd", "undecodable"}
uploaded(pat, j) == pat \in {"all", "undecodable"} \/ (pat = "odd" /\ j % 2 = 1)

\* one entry of all_stores_data as main builds it (lines 244-262)
store_data(s, n_overall, n_products, pat) ==
    [meta |-> [store_name |-> store_name(s), name |-> <<"n", Digits[s]>>,
               phone |-> <<"p", Digits[s]>>],
     overall_images |->
        [i \in 1..n_overall |->
            IF uploaded(pat, i) THEN overall_save_path(store_name(s), i)
            ELSE PLACEHOLDER_IMAGE],
     product_images |->
        [j \in 1..n_products |->
            [product |-> product_label(j),
             path |-> IF uploaded(pat, j) THEN product_save_path(store_name(s), product_label(j))
                      ELSE PLACEHOLDER_IMAGE]]]

temp_dir_path == join(OUTPUT_DIR, <<"temp_overlays">>)

overlay_suffix == <<"_", "o", "v", "e", "r", "l", "a", "y">>

\* os.path.exists for the paths a report handles: downloaded files were validated
\* when they were stored, overlay files exist once written
exists(path, ph, written) ==
    IF path = PLACEHOLDER_IMAGE THEN ph
    ELSE IF dirname(path) = temp_dir_path THEN basename(path) \in written
    ELSE path # NoPath

\* create_image_with_overlay, lines 91-97: the overlay path of a source image
temp_path(path) ==
    LET parent_dir == basename(dirname(path))
        filename == basename(path)
        name == splitext(filename)[1]
        ext == splitext(filename)[2]
    IN join(temp_dir_path, parent_dir \o <<"_">> \o name \o overlay_suffix \o ext)

\* overlay_text_on_image writes its output unless the image cannot be decoded
overlay_written(path, ph, bad) ==
    /\ exists(path, ph, {})
    /\ path # PLACEHOLDER_IMAGE
    /\ path \notin bad

\* create_image_with_overlay: the path handed on to scaled_image
create_image_with_overlay(path, ph, bad) ==
    IF overlay_written(path, ph, bad) THEN temp_path(path) ELSE path

EmptyCell == [kind |-> "empty", path |-> NoPath, label |-> <<>>]

\* scaled_image: an Image flowable, or a text paragraph when the file is missing
scaled_image(path, label, ph, written) ==
    IF path = NoPath \/ ~exists(path, ph, written)
    THEN [kind |-> "Paragraph", path |-> path, label |-> label]
    ELSE [kind |-> "Image", path |-> path, label |-> label]

\* lines 214-244: the overall table and the spacer after it
overall_block(s, overall_images, ph) ==
    IF Len(overall_images) >= 2
    THEN << [type |-> "Table", role |-> "overall", store |-> s,
             rows |-> << [idx \in 1..2 |->
                            IF idx <= Len(overall_images)
                            THEN scaled_image(overall_images[idx], <<>>, ph, {})
                            ELSE EmptyCell] >>],
            [type |-> "Spacer", role |-> "overall", store |-> s, rows |-> <<>>] >>
    ELSE <<>>

RECURSIVE product_table_data_unpadded(_)
\* the rows of the grid with the last row left short
product_table_data_unpadded(cells) ==
    IF cells = <<>> THEN <<>>
    ELSE IF Len(cells) >= 3
         THEN <<SubSeq(cells, 1, 3)>> \o product_table_data_unpadded(SubSeq(cells, 4, Len(cells)))
         ELSE <<cells>>

RECURSIVE product_table_data(_)
\* lines 248-270: rows of three cells, the last one filled up with empty cells
product_table_data(cells) ==
    IF cells = <<>> THEN <<>>
    ELSE IF Len(cells) >= 3
         THEN <<SubSeq(cells, 1, 3)>> \o product_table_data(SubSeq(cells, 4, Len(cells)))
         ELSE <<[i \in 1..3 |-> IF i <= Len(cells) THEN cells[i] ELSE EmptyCell]>>

\* the product table built from the downloaded images only, placeholder
\* entries left out
product_block_without_placeholders(s, product_images, ph, bad) ==
    LET shown == SelectSeq(product_images, LAMBDA p : p.path # PLACEHOLDER_IMAGE)
        written == {basename(temp_path(shown[j].path)) :
                        j \in {i \in 1..Len(shown) : overlay_written(shown[i].path, ph, bad)}}
        cells == [j \in 1..Len(shown) |->
                    scaled_image(create_image_with_overlay(shown[j].path, ph, bad),
                                 shown[j].product, ph, written)]
    IN IF product_table_data(cells) # <<>>
       THEN << [type |-> "Table", role |-> "products", store |-> s,
                rows |-> product_table_data(cells)] >>
       ELSE <<>>

\* lines 247-292: the product table, when there is anything to show
product_block(s, product_images, ph, bad) ==
    LET written == {basename(temp_path(product_images[j].path)) :
                        j \in {i \in 1..Len(product_images) :
                                 overlay_written(product_images[i].path, ph, bad)}}
        cells == [j \in 1..Len(product_images) |->
                    scaled_image(create_image_with_overlay(product_images[j].path, ph, bad),
                                 product_images[j].product, ph, written)]
    IN IF product_table_data(cells) # <<>>
       THEN << [type |-> "Table", role |-> "products", store |-> s,
                rows |-> product_table_data(cells)] >>
       ELSE <<>>

\* a page break after every store, the last one included
page_break_after_every_store(idx, n) == idx < n

\* line 295, idx counted from 0
page_break_after(idx, n) == idx < n - 1

\* lines 202-211
header_block(s, meta) ==
    << [type |-> "Paragraph", role |-> "title", store |-> s, rows |-> <<meta.store_name>>],
       [type |-> "Paragraph", role |-> "meta", store |-> s, rows |-> <<meta.name, meta.phone>>],
       [type |-> "Spacer", role |-> "header", store |-> s, rows |-> <<>>] >>

PageBreak == [type |-> "PageBreak", role |-> "break", store |-> 0, rows |-> <<>>]

PdfIdle ==
    /\ all_stores_data = <<>>
    /\ placeholder_exists = TRUE
    /\ unreadable = {}
    /\ elements = <<>>
    /\ store_idx = 0
    /\ temp_dir = "none"
    /\ overlays = {}
    /\ cleanup = "pending"
    /\ ppc = "idle"

\* the state at the call of line 275: every store of one run has the same columns
PdfStart ==
    /\ \E k \in 1..MaxStores, n_overall \in 0..MaxOverall, n_products \in 0..MaxProducts :
        \E pat \in [1..k -> UploadPatterns] :
            /\ all_stores_data = [s \in 1..k |-> store_data(s, n_overall, n_products, pat[s])]
            /\ unreadable = UNION {{product_save_path(store_name(s), product_label(j)) :
                                        j \in 1..n_products} :
                                   s \in {t \in 1..k : pat[t] = "undecodable"}}
    /\ placeholder_exists \in BOOLEAN
    /\ elements = <<>>
    /\ store_idx = 0
    /\ temp_dir = "none"
    /\ overlays = {}
    /\ cleanup = "pending"
    /\ ppc = "setup"

\* lines 154-194: the output directory, the working directory, the template
pdf_setup ==
    /\ ppc = "setup"
    /\ \E ok \in BOOLEAN :
        IF ok THEN /\ temp_dir' = "present"
                   /\ ppc' = "stores"
              ELSE /\ ppc' = "raised"
                   /\ UNCHANGED temp_dir
    /\ UNCHANGED <<all_stores_data, placeholder_exists, unreadable, elements, store_idx,
                   overlays, cleanup>>
    /\ UNCHANGED nonPdfVars

\* lines 197-296, one pass of the loop
pdf_store_section ==
    /\ ppc = "stores"
    /\ store_idx < Len(all_stores_data)
    /\ LET s == store_idx + 1
           store == all_stores_data[s]
           written == {basename(temp_path(store.product_images[j].path)) :
                          j \in {i \in 1..Len(store.product_images) :
                                   overlay_written(store.product_images[i].path,
                                                   placeholder_exists, unreadable)}}
       IN /\ elements' = elements
                \o header_block(s, store.meta)
                \o overall_block(s, store.overall_images, placeholder_exists)
                \o product_block(s, store.product_images, placeholder_exists, unreadable)
                \o (IF page_break_after(store_idx, Len(all_stores_data))
                    THEN <<PageBreak>> ELSE <<>>)
          /\ overlays' = overlays \cup written
    /\ store_idx' = store_idx + 1
    /\ UNCHANGED <<all_stores_data, placeholder_exists, unreadable, temp_dir, cleanup, ppc>>
    /\ UNCHANGED nonPdfVars

\* lines 204-208 and 83: a pass of the loop raises, because Paragraph rejects
\* the markup found in a store's metadata or the working directory cannot be
\* created again
pdf_store_section_raises ==
    /\ ppc = "stores"
    /\ store_idx < Len(all_stores_data)
    /\ ppc' = "raised"
    /\ UNCHANGED <<all_stores_data, placeholder_exists, unreadable, elements, store_idx,
                   temp_dir, overlays, cleanup>>
    /\ UNCHANGED nonPdfVars

\* line 299: doc.build writes the document or raises
pdf_build ==
    /\ ppc = "stores"
    /\ store_idx = Len(all_stores_data)
    /\ \E ok \in BOOLEAN : ppc' = IF ok THEN "built" ELSE "raised"
    /\ UNCHANGED <<all_stores_data, placeholder_exists, unreadable, elements, store_idx,
                   temp_dir, overlays, cleanup>>
    /\ UNCHANGED nonPdfVars

\* lines 301-309: best-effort removal of the working directory, then the return
pdf_cleanup ==
    /\ ppc = "built"
    /\ \E ok \in BOOLEAN :
        IF ok THEN /\ temp_dir' = "removed"
                   /\ overlays' = {}
                   /\ cleanup' = "done"
              ELSE /\ cleanup' = "failed"
                   /\ UNCHANGED <<temp_dir, overlays>>
    /\ ppc' = "returned"
    /\ UNCHANGED <<all_stores_data, placeholder_exists, unreadable, elements, store_idx>>
    /\ UNCHANGED nonPdfVars

(***************************************************************************)
(* main.py: main and the __main__ block                                    *)
(***************************************************************************)
TODAY_STR == <<"2026", "-", "11", "-", "05">>

Months == {"01", "02", "03", "04", "05", "06", "07", "08", "09", "10", "11", "12",
           "1", "2", "3", "4", "5", "6", "7", "8", "9"}
Days == Months \cup {"13", "14", "15", "16", "17", "18", "19", "20", "21", "22", "23",
                     "24", "25", "26", "27", "28", "29", "30", "31"}
Years == {"2025", "2026"}

\* strftime writes months and days with two digits
two_digits(t) ==
    CASE t = "1" -> "01" [] t = "2" -> "02" [] t = "3" -> "03" [] t = "4" -> "04"
      [] t = "5" -> "05" [] t = "6" -> "06" [] t = "7" -> "07" [] t = "8" -> "08"
      [] t = "9" -> "09" [] OTHER -> t

\* normalize_date: month/day/year, trimmed, rewritten as year-month-day; "" otherwise
normalize_date(val) ==
    LET t == strip(val)
    IN IF /\ Len(t) = 5
          /\ t[1] \in Months /\ t[2] = "/" /\ t[3] \in Days /\ t[4] = "/" /\ t[5] \in Years
       THEN <<t[5], "-", two_digits(t[1]), "-", two_digits(t[3])>>
       ELSE <<>>

DateCells == { <<" ", "11", "/", "5", "/", "2026", " ">>,
               <<"11", "/", "04", "/", "2026">>,
               <<"2026", "-", "11", "-", "05">> }

StoreCells == { <<"A">>, <<"A", " ">>, <<"A", " ", "B">>, <<"A", "_", "B">> }

Rows == [date : DateCells, store : StoreCells]

\* headers, as typed into the sheet
RequiredHeaders == {"Date", "store name ", "Name", "PHONE NUMBER"}
AllHeaders == RequiredHeaders \cup {"Email Address"}
ColumnSets == {AllHeaders, RequiredHeaders, AllHeaders \ {"Date"}, AllHeaders \ {"PHONE NUMBER"}}

\* c.strip().lower() on the headers above
header_key(c) ==
    CASE c = "Date" -> "date"
      [] c = "store name " -> "store name"
      [] c = "Name" -> "name"
      [] c = "PHONE NUMBER" -> "phone number"
      [] c = "Email Address" -> "email address"
      [] OTHER -> c

NoColumn == "<none>"

\* find_col: the header equal to the lower-cased name up to case and surrounding blanks
find_col(cols, name) ==
    IF \E c \in cols : header_key(c) = name
    THEN CHOOSE c \in cols : header_key(c) = name
    ELSE NoColumn

\* line 195
required_columns_found(cols) ==
    \A name \in {"date", "store name", "name", "phone number"} :
        find_col(cols, name) # NoColumn

RECURSIVE filter_today(_, _)
\* lines 200-201: the indexes of the rows whose normalized date is TODAY_STR
filter_today(rows, i) ==
    IF i > Len(rows) THEN <<>>
    ELSE (IF normalize_date(rows[i].date) = TODAY_STR THEN <<i>> ELSE <<>>)
         \o filter_today(rows, i + 1)

RECURSIVE unique(_, _, _)
\* Series.unique(): the distinct store cells of the kept rows, first seen first
unique(rows, idxs, seen) ==
    IF idxs = <<>> THEN <<>>
    ELSE LET v == rows[Head(idxs)].store
         IN IF v \in seen THEN unique(rows, Tail(idxs), seen)
            ELSE <<v>> \o unique(rows, Tail(idxs), seen \cup {v})

\* store.replace(" ", "_")
replace_spaces(store) == [i \in 1..Len(store) |-> IF store[i] = " " THEN "_" ELSE store[i]]

\* line 240: df_today[df_today[store_col] == store]
select_rows(rows, idxs, store) ==
    SelectSeq(idxs, LAMBDA i : rows[i].store = store)

\* lines 244-250: the metadata of a store, taken from row r
meta_of(store, r) ==
    [store_name |-> store, name |-> <<"n", Digits[r]>>, phone |-> <<"p", Digits[r]>>]

\* the ways a run dies in the except clause of line 284
Fatal == {"fatal_services", "fatal_index", "fatal_store", "fatal_pdf"}

NoSignal == [outcome |-> "none", result |-> "none", exit_code |-> -1]

MainIdle ==
    /\ df = <<>>
    /\ columns = AllHeaders
    /\ continue_on_error = TRUE
    /\ df_today = <<>>
    /\ stores = <<>>
    /\ loop_idx = 0
    /\ report_stores = <<>>
    /\ failed_stores = {}
    /\ result = "unset"
    /\ exit_code = -1
    /\ outcome = "none"
    /\ last_signal = NoSignal
    /\ mpc = "idle"

MainStart ==
    /\ df \in UNION {[1..n -> Rows] : n \in 0..MaxRows}
    /\ columns \in ColumnSets
    /\ continue_on_error \in BOOLEAN
    /\ df_today = <<>>
    /\ stores = <<>>
    /\ loop_idx = 0
    /\ report_stores = <<>>
    /\ failed_stores = {}
    /\ result = "unset"
    /\ exit_code = -1
    /\ outcome = "none"
    /\ last_signal = NoSignal
    /\ mpc = "read"

\* lines 169-197: services, sheet, metadata columns
main_read ==
    /\ mpc = "read"
    /\ \E ok \in BOOLEAN :
        IF ~ok
        THEN /\ result' = "raised"
             /\ outcome' = "fatal_services"
             /\ mpc' = "exit"
        ELSE IF ~required_columns_found(columns)
        THEN /\ result' = "None"
             /\ outcome' = "missing_columns"
             /\ mpc' = "exit"
        ELSE /\ mpc' = "filter"
             /\ UNCHANGED <<result, outcome>>
    /\ UNCHANGED <<df, columns, continue_on_error, df_today, stores, loop_idx,
                   report_stores, failed_stores, exit_code, last_signal>>
    /\ UNCHANGED nonMainVars

\* lines 199-228: today's rows, the image columns, the stores
main_filter ==
    /\ mpc = "filter"
    /\ df_today' = filter_today(df, 1)
    /\ IF filter_today(df, 1) = <<>>
       THEN /\ result' = "None"
            /\ outcome' = "empty"
            /\ mpc' = "exit"
            /\ UNCHANGED stores
       ELSE /\ stores' = unique(df, filter_today(df, 1), {})
            /\ mpc' = "stores"
            /\ UNCHANGED <<result, outcome>>
    /\ UNCHANGED <<df, columns, continue_on_error, loop_idx, report_stores,
                   failed_stores, exit_code, last_signal>>
    /\ UNCHANGED nonMainVars

\* lines 230-269, one pass of the loop: iloc[0] raises on an empty selection and
\* that exception is outside the inner try; process_store_images returns or raises
main_store ==
    /\ mpc = "stores"
    /\ loop_idx < Len(stores)
    /\ LET store == strip(stores[loop_idx + 1])
           store_df == select_rows(df, df_today, store)
       IN IF store_df = <<>>
          THEN /\ result' = "raised"
               /\ outcome' = "fatal_index"
               /\ mpc' = "exit"
               /\ UNCHANGED <<loop_idx, report_stores, failed_stores>>
          ELSE \E processed \in BOOLEAN :
                IF processed
                THEN /\ report_stores' = Append(report_stores,
                                            [meta |-> meta_of(store, store_df[1]),
                                             first_row |-> store_df[1],
                                             store_cell |-> stores[loop_idx + 1],
                                             store_dir |-> join(IMAGE_DIR, replace_spaces(store))])
                     /\ loop_idx' = loop_idx + 1
                     /\ UNCHANGED <<failed_stores, result, outcome, mpc>>
                ELSE /\ failed_stores' = failed_stores \cup {loop_idx + 1}
                     /\ IF continue_on_error
                        THEN /\ loop_idx' = loop_idx + 1
                             /\ UNCHANGED <<report_stores, result, outcome, mpc>>
                        ELSE /\ result' = "raised"
                             /\ outcome' = "fatal_store"
                             /\ mpc' = "exit"
                             /\ UNCHANGED <<loop_idx, report_stores>>
    /\ UNCHANGED <<df, columns, continue_on_error, df_today, stores, exit_code, last_signal>>
    /\ UNCHANGED nonMainVars

\* lines 271-286: the document, when any store was processed
main_generate ==
    /\ mpc = "stores"
    /\ loop_idx = Len(stores)
    /\ IF report_stores = <<>>
       THEN /\ result' = "None"
            /\ outcome' = "no_data"
       ELSE \E built \in BOOLEAN :
            IF built THEN /\ result' = "pdf_path"
                          /\ outcome' = "generated"
                     ELSE /\ result' = "raised"
                          /\ outcome' = "fatal_pdf"
    /\ mpc' = "exit"
    /\ UNCHANGED <<df, columns, continue_on_error, df_today, stores, loop_idx,
                   report_stores, failed_stores, exit_code, last_signal>>
    /\ UNCHANGED nonMainVars

\* lines 289-298
main_exit ==
    /\ mpc = "exit"
    /\ exit_code' = IF result = "pdf_path" THEN 0 ELSE 1
    /\ mpc' = "exited"
    /\ UNCHANGED <<df, columns, continue_on_error, df_today, stores, loop_idx,
                   report_stores, failed_stores, result, outcome, last_signal>>
    /\ UNCHANGED nonMainVars

\* the next scheduled run, over the same rows under a possibly edited header row
next_run ==
    /\ mpc = "exited"
    /\ last_signal = NoSignal
    /\ last_signal' = [outcome |-> outcome, result |-> result, exit_code |-> exit_code]
    /\ columns' \in ColumnSets
    /\ df_today' = <<>>
    /\ stores' = <<>>
    /\ loop_idx' = 0
    /\ report_stores' = <<>>
    /\ failed_stores' = {}
    /\ result' = "unset"
    /\ exit_code' = -1
    /\ outcome' = "none"
    /\ mpc' = "read"
    /\ UNCHANGED <<df, continue_on_error>>
    /\ UNCHANGED nonMainVars

(***************************************************************************)
(* main.py: process_store_images and the hand-over to the layout           *)
(***************************************************************************)
EnDash == "<en dash>"

\* the product names of the sheet, in mixed case
ProductNames == { <<"a">>, <<"B">>, <<"b">>, <<"A", "b">>, <<"a", "B">> }

\* the headers of the product columns: "<name> <en dash> Take a clear photo",
\* and one written without the blank before the dash and with a leading blank
ProductHeaders ==
    {n \o <<" ", EnDash, " ", "Take a clear photo">> : n \in ProductNames}
        \cup { <<" ", "A", EnDash, "Take a clear photo">> }

RECURSIVE index_of(_, _, _)
\* position of the first c in s at or after i, Len(s) + 1 when there is none
index_of(s, c, i) ==
    IF i > Len(s) THEN i
    ELSE IF s[i] = c THEN i ELSE index_of(s, c, i + 1)

\* line 74: column_name.split(en dash)[0].strip()
extract_product_name(column_name) ==
    strip(SubSeq(column_name, 1, index_of(column_name, EnDash, 1) - 1))

\* code points of the characters of product names
ord(c) ==
    IF c = "A" THEN 65
    ELSE IF c = "B" THEN 66
    ELSE IF c = "a" THEN 97
    ELSE IF c = "b" THEN 98
    ELSE 0

RECURSIVE str_less(_, _)
\* a < b for Python strings: by code point, a proper prefix first
str_less(a, b) ==
    IF b = <<>> THEN FALSE
    ELSE IF a = <<>> THEN TRUE
    ELSE IF ord(a[1]) # ord(b[1]) THEN ord(a[1]) < ord(b[1])
    ELSE str_less(Tail(a), Tail(b))

RECURSIVE insert_by_key(_, _)
\* x put behind every element whose key is not greater than its own
insert_by_key(x, l) ==
    IF l = <<>> THEN <<x>>
    ELSE IF str_less(x.key, l[1].key) THEN <<x>> \o l
    ELSE <<l[1]>> \o insert_by_key(x, Tail(l))

RECURSIVE sorted(_)
\* sorted(l, key=...) over items paired with their keys: ascending by key,
\* items of equal key in their order in l
sorted(l) ==
    IF l = <<>> THEN <<>>
    ELSE insert_by_key(l[Len(l)], sorted(SubSeq(l, 1, Len(l) - 1)))

\* the product images sorted by label as written, upper case before lower case
sort_product_images_by_label(images) ==
    LET by_key == sorted([j \in 1..Len(images) |->
                            [key |-> images[j].product, item |-> images[j]]])
    IN [j \in 1..Len(by_key) |-> by_key[j].item]

\* line 162
sort_product_images(images) ==
    LET by_key == sorted([j \in 1..Len(images) |->
                            [key |-> lower(images[j].product), item |-> images[j]]])
    IN [j \in 1..Len(by_key) |-> by_key[j].item]

\* lines 141-164; the cell of column j resolves to its save path when
\* process_image_column downloaded and validated it, to the placeholder otherwise
process_store_images_result(store, cols, n_overall, pat) ==
    [overall_images |->
        [idx \in 1..n_overall |->
            IF uploaded(pat, idx) THEN overall_save_path(store, idx) ELSE PLACEHOLDER_IMAGE],
     product_images |->
        sort_product_images(
            [j \in 1..Len(cols) |->
                LET product == extract_product_name(cols[j])
                IN [product |-> product,
                    path |-> IF uploaded(pat, j) THEN product_save_path(store, product)
                             ELSE PLACEHOLDER_IMAGE]])]

StoreIdle ==
    /\ product_columns = <<>>
    /\ n_overall_columns = 0
    /\ upload = "none"
    /\ ret_overall_images = <<>>
    /\ ret_product_images = <<>>
    /\ spc = "idle"

\* the state at line 254 for one store: the columns found by lines 210-221
StoreStart ==
    /\ product_columns \in {c \in SeqsUpTo(ProductHeaders, MaxProducts) :
                                \A i, j \in 1..Len(c) : i # j => c[i] # c[j]}
    /\ n_overall_columns \in 0..MaxOverall
    /\ upload \in UploadPatterns
    /\ ret_overall_images = <<>>
    /\ ret_product_images = <<>>
    /\ spc = "start"

\* lines 254-256 and 141-164
process_store_images ==
    /\ spc = "start"
    /\ LET got == process_store_images_result(store_name(1), product_columns,
                                               n_overall_columns, upload)
       IN /\ ret_overall_images' = got.overall_images
          /\ ret_product_images' = got.product_images
    /\ spc' = "processed"
    /\ UNCHANGED <<product_columns, n_overall_columns, upload>>
    /\ UNCHANGED pdfVars
    /\ UNCHANGED nonStoreVars

\* lines 258-262 and 272-275: the record is appended and handed to the layout
main_append ==
    /\ spc = "processed"
    /\ all_stores_data' =
            << [meta |-> store_data(1, 0, 0, upload).meta,
                overall_images |-> ret_overall_images,
                product_images |-> ret_product_images] >>
    /\ unreadable' = IF upload = "undecodable"
                     THEN {ret_product_images[j].path : j \in 1..Len(ret_product_images)}
                     ELSE {}
    /\ placeholder_exists' \in BOOLEAN
    /\ ppc' = "setup"
    /\ spc' = "generating"
    /\ UNCHANGED <<elements, store_idx, temp_dir, overlays, cleanup>>
    /\ UNCHANGED <<product_columns, n_overall_columns, upload, ret_overall_images, ret_product_images>>
    /\ UNCHANGED nonStoreVars

(***************************************************************************)
(* create_image_with_overlay applied to the product images of one run      *)
(***************************************************************************)
NameChars == {"A", "_"}

\* store directory names (line 236 leaves no blank in them) and product labels
Names == {n \in SeqsUpTo(NameChars, MaxNameLen) : n # <<>> /\ n[1] # "_" /\ n[Len(n)] # "_"}

\* the downloaded product images a run can hold
SourceImages == {product_save_path(d, n) : d \in Names, n \in Names}

OverlayIdle ==
    /\ sources = <<>>
    /\ outputs = <<>>
    /\ temp_content = {}

OverlayStart ==
    /\ sources \in [1..2 -> SourceImages]
    /\ outputs = <<>>
    /\ temp_content = {}

\* pdf_generator.py lines 253 and 74-100 for the next product image: the overlay
\* is written to its path in the working directory, replacing what was there
overlay_product_image ==
    /\ Len(outputs) < Len(sources)
    /\ LET img == sources[Len(outputs) + 1]
           out == create_image_with_overlay(img, TRUE, {})
       IN /\ outputs' = Append(outputs, out)
          /\ temp_content' = {f \in temp_content : f[1] # out} \cup {<<out, img>>}
    /\ UNCHANGED sources
    /\ UNCHANGED nonOverlayVars

InitOverlay == OverlayStart /\ ResolverIdle /\ PdfIdle /\ MainIdle /\ StoreIdle

NextOverlay == overlay_product_image

SpecOverlay == InitOverlay /\ [][NextOverlay]_vars

InitMain == MainStart /\ ResolverIdle /\ PdfIdle /\ OverlayIdle /\ StoreIdle

NextMain ==
    \/ main_read
    \/ main_filter
    \/ main_store
    \/ main_generate
    \/ main_exit
    \/ next_run

SpecMain == InitMain /\ [][NextMain]_vars

InitPdf == PdfStart /\ ResolverIdle /\ MainIdle /\ OverlayIdle /\ StoreIdle

NextPdf ==
    \/ pdf_setup
    \/ pdf_store_section
    \/ pdf_store_section_raises
    \/ pdf_build
    \/ pdf_cleanup

SpecPdf == InitPdf /\ [][NextPdf]_vars

InitResolve == ResolverStart /\ PdfIdle /\ MainIdle /\ OverlayIdle /\ StoreIdle

NextResolve ==
    \/ process_image_column_link
    \/ process_image_column_file_id
    \/ download_drive_file
    \/ download_and_validate_image
    \/ download_and_validate_image_except

SpecResolve == InitResolve /\ [][NextResolve]_vars

InitStore == StoreStart /\ ResolverIdle /\ PdfIdle /\ MainIdle /\ OverlayIdle

NextStore ==
    \/ process_store_images
    \/ main_append
    \/ pdf_setup
    \/ pdf_store_section
    \/ pdf_store_section_raises
    \/ pdf_build
    \/ pdf_cleanup

SpecStore == InitStore /\ [][NextStore]_vars

(***************************************************************************)
(* Properties of process_image_column.                                     *)
(***************************************************************************)
\* the text a cell carries before trimming: the string itself, the first
\* non-empty element of a multi-value cell, nothing for an absent cell
RawText(c) ==
    IF c.kind = "str" THEN c.val[1]
    ELSE LET full == {i \in 1..Len(c.val) : Len(c.val[i]) > 0}
         IN IF c.kind = "absent" \/ full = {} THEN <<>>
            ELSE c.val[CHOOSE i \in full : \A j \in full : i <= j]

\* one of the four URL shapes occurs in the text
HasReference(t) ==
    \E p \in 1..Len(patterns) : \E i \in 1..Len(t) : MatchAt(patterns[p], t, i)

\* C4: process_image_column returns normally whatever the download and the
\* validation do, and what it returns is the placeholder path or the
\* destination path holding a freshly downloaded file that passed validation;
\* it is never null.
C4_ResolverNeverRaises ==
    /\ rpc # "raised"
    /\ rpc = "returned" =>
          \/ img_path = PLACEHOLDER_IMAGE
          \/ /\ img_path = save_path(save_ext)
             /\ dest = "image"
             /\ save_ext \in {"jpg", "PNG"}
             /\ attempts = 1

\* the download raised after the file was created and the call still returned
C4_Witness ==
    /\ rpc = "returned"
    /\ exc = "download"
    /\ dest = "partial"
    /\ img_path = PLACEHOLDER_IMAGE

\* C5: a download is attempted only for a cell whose text carries a file
\* reference; an empty, whitespace-only, absent or unrecognized cell returns
\* the placeholder path with no download attempted.
C5_DownloadOnlyForReference ==
    /\ attempts > 0 => HasReference(RawText(cell))
    /\ (rpc = "returned" /\ ~HasReference(RawText(cell))) =>
          (img_path = PLACEHOLDER_IMAGE /\ attempts = 0)

\* a multi-value cell whose first non-empty element is whitespace, followed by
\* a valid link: the placeholder is returned without a download
C5_Witness ==
    /\ rpc = "returned"
    /\ cell.kind = "list"
    /\ cell.val = << <<" ">>, ValidLink >>
    /\ img_path = PLACEHOLDER_IMAGE
    /\ attempts = 0

\* C6: when the download raises, the placeholder path is returned and no file
\* remains at the destination path.
C6_NoFileAfterFailedDownload ==
    (rpc = "returned" /\ exc = "download") =>
        (img_path = PLACEHOLDER_IMAGE /\ dest = "absent")

\* C15: a failed download is tried again within the retry budget: the
\* resolver makes at most MAX_DOWNLOAD_RETRIES attempts for an image, and it
\* falls back to the placeholder because of a download error only after the
\* budget is used up.
C15_DownloadRetriedWithinBudget ==
    /\ attempts <= MAX_DOWNLOAD_RETRIES
    /\ (rpc = "returned" /\ exc = "download") => attempts >= MAX_DOWNLOAD_RETRIES

(***************************************************************************)
(* Properties of generate_daily_report_pdf.                                *)
(***************************************************************************)
\* the elements of a given role laid out for store s
ElementsOf(s, role) ==
    {i \in 1..Len(elements) : elements[i].store = s /\ elements[i].role = role
                              /\ elements[i].type = "Table"}

\* C1: every store section holds an overall block that is one row of exactly
\* two cells, whatever the number of overall images supplied; cells without
\* an image are empty and the block is never omitted.
C1_OverallBlockAlwaysPresent ==
    \A s \in 1..store_idx :
        \E i \in ElementsOf(s, "overall") :
            /\ Len(elements[i].rows) = 1
            /\ Len(elements[i].rows[1]) = 2
            /\ \A idx \in 1..2 :
                  idx > Len(all_stores_data[s].overall_images)
                      => elements[i].rows[1][idx].kind = "empty"

\* C2: for N product images the grid of a store has ceil(N/3) rows of exactly
\* three cells, and the empty cells are exactly those past the N-th image,
\* all of them in the last row.
C2_ProductGridShape ==
    \A s \in 1..store_idx :
        LET N == Len(all_stores_data[s].product_images)
            grids == ElementsOf(s, "products")
            rows == IF grids = {} THEN <<>> ELSE elements[CHOOSE i \in grids : TRUE].rows
        IN /\ Cardinality(grids) <= 1
           /\ Len(rows) = (N + 2) \div 3
           /\ \A r \in 1..Len(rows) :
                /\ Len(rows[r]) = 3
                /\ \A c \in 1..3 : (rows[r][c].kind = "empty") <=> (3 * (r - 1) + c > N)
                /\ (\E c \in 1..3 : rows[r][c].kind = "empty") => r = Len(rows)

\* four product images were laid out as two rows, the second one padded twice
C2_Witness ==
    /\ ppc = "returned"
    /\ Len(all_stores_data[1].product_images) = 4
    /\ \E i \in ElementsOf(1, "products") :
          /\ Len(elements[i].rows) = 2
          /\ elements[i].rows[2][1].kind # "empty"
          /\ elements[i].rows[2][2].kind = "empty"
          /\ elements[i].rows[2][3].kind = "empty"

\* C3: once all k sections are laid out, the element list holds them in input
\* order with exactly k-1 page breaks: one between each two consecutive
\* sections, none before the first and none after the last.
C3_PageBreaksBetweenStores ==
    (ppc \in {"stores", "built", "returned"} /\ store_idx = Len(all_stores_data)) =>
        LET k == Len(all_stores_data)
            breaks == {i \in 1..Len(elements) : elements[i].type = "PageBreak"}
            content == (1..Len(elements)) \ breaks
        IN /\ Cardinality(breaks) = k - 1
           /\ 1 \notin breaks
           /\ Len(elements) \notin breaks
           /\ \A s \in 1..k :
                \E i \in content :
                    /\ elements[i].role = "title"
                    /\ elements[i].store = s
                    /\ elements[i].rows = <<all_stores_data[s].meta.store_name>>
           /\ \A i, j \in content :
                i < j => Cardinality({b \in breaks : i < b /\ b < j})
                            = elements[j].store - elements[i].store

\* three stores were laid out, with two page breaks
C3_Witness ==
    /\ ppc = "returned"
    /\ Len(all_stores_data) = 3
    /\ Cardinality({i \in 1..Len(elements) : elements[i].type = "PageBreak"}) = 2

\* the store record whose product cells were all left unpopulated: every
\* product image of it is the placeholder (main.py line 129 and line 159)
Unpopulated(s) ==
    \A j \in 1..Len(all_stores_data[s].product_images) :
        all_stores_data[s].product_images[j].path = PLACEHOLDER_IMAGE

\* the sections of a two-store document: one page break, and it lies between
\* the two sections; each section's title and metadata line are its own store's
TwoSectionsOwnMetadata ==
    LET breaks == {i \in 1..Len(elements) : elements[i].type = "PageBreak"}
        of_store(s) == {i \in 1..Len(elements) : elements[i].store = s}
    IN /\ Cardinality(breaks) = 1
       /\ \A b \in breaks : /\ \A i \in of_store(1) : i < b
                            /\ \A i \in of_store(2) : b < i
       /\ \A s \in 1..2 :
            /\ of_store(s) # {}
            /\ \A i \in of_store(s) :
                 /\ elements[i].role = "title"
                        => elements[i].rows = <<all_stores_data[s].meta.store_name>>
                 /\ elements[i].role = "meta"
                        => elements[i].rows = <<all_stores_data[s].meta.name,
                                                all_stores_data[s].meta.phone>>
            /\ Cardinality({i \in of_store(s) : elements[i].role = "title"}) = 1
            /\ Cardinality({i \in of_store(s) : elements[i].role = "meta"}) = 1

C9_WorkingDirectoryReleased ==
    (ppc \in {"returned", "raised"} /\ temp_dir # "none") =>
        \/ temp_dir = "removed"
        \/ (cleanup = "failed" /\ ppc = "returned")

(***************************************************************************)
(* Properties of main.                                                     *)
(***************************************************************************)
TodayRows == {i \in 1..Len(df) : normalize_date(df[i].date) = TODAY_STR}

\* the records of report_stores are one per store, in first-seen order, each
\* built from the first of today's rows of its store, and cover today's rows
Grouped ==
    /\ \A k \in 1..Len(report_stores) :
          LET r == report_stores[k].first_row
          IN /\ r \in TodayRows
             /\ report_stores[k].meta = meta_of(strip(df[r].store), r)
             /\ \A i \in TodayRows : i < r => df[i].store # df[r].store
    /\ \A k, l \in 1..Len(report_stores) :
          k < l => report_stores[k].first_row < report_stores[l].first_row
    /\ \A i \in TodayRows :
          \E k \in 1..Len(report_stores) :
              report_stores[k].meta.store_name = strip(df[i].store)

\* C7: when no store's image processing fails, the stores main hands to the
\* report are the distinct stores of today's rows, one record each, in
\* first-seen order and built from the first matching row, whatever blanks
\* surround the store names; no store name makes the run die.
C7_StoresGroupedFirstSeen ==
    /\ outcome # "fatal_index"
    /\ (mpc = "stores" /\ loop_idx = Len(stores) /\ Len(report_stores) = loop_idx)
          => Grouped

\* C8: a run that finds no row for the target date produces no document, and
\* its return value and exit code differ from those of a run that failed
\* (fatal exception or missing required columns).
C8_EmptyRunDistinctFromFailure ==
    /\ outcome = "empty" => result # "pdf_path"
    /\ mpc = "exited" =>
          LET now == [outcome |-> outcome, result |-> result, exit_code |-> exit_code]
              Failed(sig) == sig.outcome \in Fatal \cup {"missing_columns"}
              Same(a, b) == a.result = b.result /\ a.exit_code = b.exit_code
          IN /\ (now.outcome = "empty" /\ Failed(last_signal)) => ~Same(now, last_signal)
             /\ (last_signal.outcome = "empty" /\ Failed(now)) => ~Same(now, last_signal)

\* the names of the stores of the run whose image processing did not fail, in
\* the order main met them
SurvivingStores ==
    LET keep == SelectSeq([i \in 1..Len(stores) |-> i], LAMBDA i : i \notin failed_stores)
    IN [k \in 1..Len(keep) |-> strip(stores[keep[k]])]

\* C11: when the image processing of a store raises, then with
\* continue-on-error the run goes through all its stores and hands every other
\* store to the document in the original order; without it the exception is
\* re-raised, the run aborts and no document is written.
C11_StoreFailurePolicy ==
    (failed_stores # {} /\ mpc \in {"exit", "exited"}) =>
        IF continue_on_error
        THEN /\ outcome \in {"generated", "no_data", "fatal_pdf"}
             /\ loop_idx = Len(stores)
             /\ [k \in 1..Len(report_stores) |-> report_stores[k].meta.store_name]
                    = SurvivingStores
        ELSE /\ outcome = "fatal_store"
             /\ result = "raised"

\* the download destinations of a store of the run: the save paths lines 149
\* and 157 build under the store_dir of line 236
DestinationPaths(store) ==
    {overall_save_path(replace_spaces(store), idx) : idx \in 1..2}
        \cup {product_save_path(replace_spaces(store), product_label(j)) : j \in 1..2}

\* C14: any two different stores processed in one run have disjoint sets of
\* download destination paths, also when their names differ only by a blank
\* against an underscore or by surrounding blanks.
C14_StoreDestinationsDisjoint ==
    \A i, j \in 1..Len(report_stores) :
        (i # j /\ report_stores[i].store_cell # report_stores[j].store_cell) =>
            DestinationPaths(report_stores[i].meta.store_name)
                \cap DestinationPaths(report_stores[j].meta.store_name) = {}

(***************************************************************************)
(* Properties of process_store_images.                                     *)
(***************************************************************************)
\* labels l are in ascending order of lower-cased label
AscendingLowerCased(l) ==
    \A i, j \in 1..Len(l) : i < j => ~str_less(lower(l[j]), lower(l[i]))

\* the labels of the cells of the store's product grid, read row by row,
\* the padding cells left out
GridLabels ==
    LET grids == ElementsOf(1, "products")
        rows == IF grids = {} THEN <<>> ELSE elements[CHOOSE i \in grids : TRUE].rows
        cell_at(j) == rows[((j - 1) \div 3) + 1][((j - 1) % 3) + 1]
        shown == {j \in 1..(3 * Len(rows)) : cell_at(j).kind # "empty"}
    IN [j \in 1..Cardinality(shown) |-> cell_at(j).label]

\* C13: whatever the order of the product columns in the table, the product
\* images process_store_images returns are one per product column and in
\* ascending order of lower-cased label, and the cells of the store's grid,
\* read row by row, show the labels in that same order.
C13_ProductImagesSortedByLabel ==
    /\ spc \in {"processed", "generating"} =>
          /\ Len(ret_product_images) = Len(product_columns)
          /\ {ret_product_images[j].product : j \in 1..Len(ret_product_images)}
                = {extract_product_name(product_columns[j]) : j \in 1..Len(product_columns)}
          /\ AscendingLowerCased([j \in 1..Len(ret_product_images) |->
                                      ret_product_images[j].product])
    /\ (spc = "generating" /\ store_idx = 1) =>
          /\ GridLabels = [j \in 1..Len(ret_product_images) |-> ret_product_images[j].product]
          /\ AscendingLowerCased(GridLabels)

\* the columns B, a, Ab, in this order in the table, were laid out as the
\* grid row a, Ab, B
C13_Witness ==
    /\ ppc = "returned"
    /\ spc = "generating"
    /\ [j \in 1..Len(product_columns) |-> extract_product_name(product_columns[j])]
          = << <<"B">>, <<"a">>, <<"A", "b">> >>
    /\ GridLabels = << <<"a">>, <<"A", "b">>, <<"B">> >>

(***************************************************************************)
(* Properties of create_image_with_overlay.                                *)
(***************************************************************************)
\* C10: two distinct source images of one run get two distinct overlay paths,
\* so the overlay of the first is still in the working directory after the
\* overlay of the second was written.
C10_OverlayPathsDistinct ==
    (Len(outputs) = 2 /\ sources[1] # sources[2]) =>
        /\ outputs[1] # outputs[2]
        /\ <<outputs[1], sources[1]>> \in temp_content

====
